---- MODULE Spec2Model ----
(***************************************************************************)
(* Model of the incremental ingestion engine of accommodation_analysis:    *)
(* ManageDatabase (src/modules/database.py) driven by                      *)
(* create_and_populate_database (src/create_main_database.py) and by the   *)
(* booking flow (src/main.py, src/flow_booking_data.py).                   *)
(*                                                                         *)
(* The PostgreSQL store is modelled by the tables the engine writes:       *)
(* listings (SERIAL primary key, foreign key to neighbourhoods), booking,  *)
(* and the two lazily created *_error_log tables.  Of the 23 listing       *)
(* columns only the ones a constraint or a lookup reads are kept           *)
(* (listing_id, name, platform, neighbourhood_id); of the booking columns  *)
(* listing_id and price.  The remaining columns are copied through by the  *)
(* code without being read.                                                *)
(***************************************************************************)
EXTENDS Integers, Sequences, FiniteSets, TLC

\* ---------------------------------------------------------------- bounds
MaxSetupRows == 1      \* rows of data/listings.csv
MaxRows == 2           \* DataFrame rows handed to add_booking_data, all calls together
MaxRuns == 2           \* calls of add_booking_data
MaxBulkRows == 3       \* rows of a DataFrame given to populate_table on its own
MaxCalls == 2          \* calls of execute_query taken statement by statement
MaxBatch == 2          \* rows of a DataFrame that add_booking_data is given whole
MaxLinks == 3          \* links in hotels_links.csv
MaxWriterRows == 2     \* rows that two concurrent add_booking_data calls process together

\* ------------------------------------------------------------- constants
Names == {"A", "B"}
Platforms == {"airbnb", "booking"}
\* values of district_mapping (truncated), the rows of neighbourhoods
district_mapping == {1}
\* neighbourhood_id values a scraped record may carry; 99 is in no dimension row
NeighbourhoodInputs == {1, 99}
\* price NUMERIC(10, 2): absolute values of 10^8 and above overflow
NumericLimit == 100000000
PriceInputs == {10, NumericLimit}
\* a DataFrame row without a listing_id column (the column takes its DEFAULT)
NoId == 0

\* failure modes of one log_error call: none, the DO $$ ... CREATE TABLE
\* statement raises, or the INSERT into the error table raises
LogFaults == {"ok", "ddl", "insert"}

\* connect() of the execute_query that carries a row INSERT fails
\* (psycopg2.OperationalError): "connect", the store is reachable again when
\* log_error connects; "down", it is still unreachable then
ConnFaults == {"connect", "down"}
RowFaults == LogFaults \cup ConnFaults
OperationalError == "could not connect to server"

VARIABLES
    pc,                  \* "init" | "ready" | "run" | "crashed"
    listings,            \* set of rows of accommodations.listings
    listing_id_seq,      \* the SERIAL sequence: [last_value, is_called]
    booking,             \* rows of accommodations.booking, in insertion order
    listings_error_log,  \* rows of accommodations.listings_error_log
    booking_error_log,   \* rows of accommodations.booking_error_log
    error_tables,        \* names of the error tables that exist
    setup_rows,          \* the listings DataFrame given to the setup bulk load
    db_names,            \* add_booking_data: the dict of load_existing_values
    i,                   \* add_booking_data: rows of df consumed so far
    rows_used,           \* rows consumed by all calls of add_booking_data
    run0,                \* the store as it was when the current run began
    last,                \* add_booking_data: locals of the last iteration
    runs,                \* number of add_booking_data calls so far
    exc,                 \* exception that left the last top-level call
    pbar,                \* add_booking_data: the count of its progress bar
    ret,                 \* what the last completed add_booking_data returned
    shared_conn,         \* add_booking_data: its connection conn, "none" | "closed", or
                         \* open with the transaction "idle" | "intrans" | "aborted"
    batch,               \* add_booking_data: the DataFrame df it was called with
    done,                \* the rows of batch processed so far, with their outcome
    eq,                  \* the frame of an execute_query call taken step by step
    su,                  \* create_and_populate_database taken step by step
    writers,             \* two add_booking_data calls running side by side
    scrape               \* get_all_hotel_information: its loop over the links

vars == <<pc, listings, listing_id_seq, booking, listings_error_log,
          booking_error_log, error_tables, setup_rows, db_names, i, rows_used,
          run0, last, runs, exc, pbar, ret, shared_conn,
          batch, done, eq, su, writers, scrape>>

\* what the steps of add_booking_data and populate_table leave alone
script_vars == <<eq, su, writers, scrape>>
\* the batch, when it is kept (rows are drawn one by one otherwise)
batch_vars == <<batch, done>>
\* what no step of execute_query touches
ingest_vars == <<pc, booking, listings_error_log, booking_error_log, error_tables,
                 setup_rows, db_names, i, rows_used, run0, last, runs, exc, pbar, ret,
                 shared_conn, batch, done, writers, scrape>>

\* ------------------------------------------------------------- helpers
Ids(L) == {l.listing_id : l \in L}

RECURSIVE SetMax(_)
SetMax(S) ==
    IF S = {} THEN 0
    ELSE LET x == CHOOSE y \in S : TRUE
             m == SetMax(S \ {x})
         IN  IF x > m THEN x ELSE m

\* nextval() of a PostgreSQL sequence
NextVal(s) == IF s.is_called THEN s.last_value + 1 ELSE s.last_value
AfterNextVal(s) == [last_value |-> NextVal(s), is_called |-> TRUE]

\* mutant: the None test inverted, so that 0 is returned for a filled table
get_max_listing_id_inverted(L) == IF L = {} THEN SetMax(Ids(L)) ELSE 0

\* SELECT MAX(listing_id) FROM listings, None replaced by 0
get_max_listing_id(L) == IF L = {} THEN 0 ELSE SetMax(Ids(L))

\* mutant: setval(seq, max_id, false), the + 1 forgotten
setval_max_id(max_id) ==
    [last_value |-> IF max_id = 0 THEN 1 ELSE max_id, is_called |-> FALSE]

\* mutant: setval(seq, max_id + 1) with is_called left at its default, true
setval_is_called(max_id) == [last_value |-> max_id + 1, is_called |-> TRUE]

\* setval(seq, max_id + 1, false)
set_listing_id_sequence(max_id) == [last_value |-> max_id + 1, is_called |-> FALSE]

\* literal textual representation of a value bound to a TEXT column
IdText(v) == IF v = NoId THEN "NULL" ELSE ToString(v)

\* ------------------------------------------------------------ the store
\* INSERT INTO listings: a row without listing_id draws it from the sequence
\* (the value is consumed even when the insert then fails); the primary key
\* is checked on insertion, the foreign key after it.
ListingInsert(L, S, row) ==
    LET gen == row.listing_id = NoId
        id  == IF gen THEN NextVal(S) ELSE row.listing_id
        S2  == IF gen THEN AfterNextVal(S) ELSE S
        err == IF id \in Ids(L) THEN "duplicate key value violates unique constraint"
               ELSE IF row.neighbourhood_id \notin district_mapping
                    THEN "violates foreign key constraint"
               ELSE ""
    IN  [listings |-> IF err = "" THEN L \cup {[row EXCEPT !.listing_id = id]} ELSE L,
         seq |-> S2, error |-> err, gen_id |-> IF gen THEN id ELSE NoId]

\* the values tuple of a listings row as stored in TEXT columns
ListingText(row) ==
    [listing_id |-> IdText(row.listing_id), name |-> row.name,
     platform |-> row.platform, neighbourhood_id |-> ToString(row.neighbourhood_id)]

\* the values tuple (listing_id, ..., price) of a booking row as TEXT
BookingText(brow) ==
    [listing_id |-> ToString(brow.listing_id), price |-> ToString(brow.price)]

\* mutant: DROP TABLE IF EXISTS and CREATE TABLE in place of the conditional
\* CREATE TABLE
log_error_recreate(table_name, E, tabs, values, error_message, fault) ==
    LET error_log_table == table_name \o "_error_log"
        error_values == [v \in (DOMAIN values) \cup {"error_message"} |->
                           IF v = "error_message" THEN error_message ELSE values[v]]
    IN  IF fault = "ddl"
        THEN [log |-> E, tables |-> tabs, raised |-> TRUE]
        ELSE IF fault = "insert"
        THEN [log |-> <<>>, tables |-> tabs \cup {error_log_table}, raised |-> TRUE]
        ELSE [log |-> <<error_values>>,
              tables |-> tabs \cup {error_log_table}, raised |-> FALSE]

\* log_error: CREATE TABLE <table>_error_log IF NOT EXISTS, then INSERT the
\* values and str(error).  Either statement may raise; nothing catches it.
log_error(table_name, E, tabs, values, error_message, fault) ==
    LET error_log_table == table_name \o "_error_log"
        error_values == [v \in (DOMAIN values) \cup {"error_message"} |->
                           IF v = "error_message" THEN error_message ELSE values[v]]
    IN  IF fault = "ddl"
        THEN [log |-> E, tables |-> tabs, raised |-> TRUE]
        ELSE IF fault = "insert"
        THEN [log |-> E, tables |-> tabs \cup {error_log_table}, raised |-> TRUE]
        ELSE [log |-> Append(E, error_values),
              tables |-> tabs \cup {error_log_table}, raised |-> FALSE]

\* execute_query(INSERT INTO listings ...) of populate_table for one row:
\* connect() raises before the statement is sent, or the statement runs
execute_insert(L, S, row, fault) ==
    IF fault \in ConnFaults
    THEN [listings |-> L, seq |-> S, error |-> OperationalError, gen_id |-> NoId]
    ELSE ListingInsert(L, S, row)

\* the fault of the log_error call that follows a failed row
log_fault(fault) ==
    IF fault = "connect" THEN "ok" ELSE IF fault = "down" THEN "ddl" ELSE fault

\* populate_table('listings', df): one INSERT per row in df order; a failing
\* row goes to log_error and the loop goes on, unless log_error raises.
\* st = [listings, seq, log, tables]; faults[k] is the fault of the log_error
\* call for row k, should there be one.
RECURSIVE populate_from(_, _, _, _)
populate_from(st, df, faults, k) ==
    IF k > Len(df)
    THEN [listings |-> st.listings, seq |-> st.seq, log |-> st.log,
          tables |-> st.tables, raised |-> FALSE, attempted |-> Len(df),
          error |-> st.error, gen_id |-> st.gen_id]
    ELSE LET ins == execute_insert(st.listings, st.seq, df[k], faults[k])
         IN  IF ins.error = ""
             THEN populate_from([st EXCEPT !.listings = ins.listings, !.seq = ins.seq,
                                           !.error = "", !.gen_id = ins.gen_id],
                                df, faults, k + 1)
             ELSE LET lg == log_error("listings", st.log, st.tables,
                                      ListingText(df[k]), ins.error, log_fault(faults[k]))
                  IN  IF lg.raised
                      THEN [listings |-> st.listings, seq |-> ins.seq, log |-> lg.log,
                            tables |-> lg.tables, raised |-> TRUE, attempted |-> k,
                            error |-> ins.error, gen_id |-> ins.gen_id]
                      ELSE populate_from([st EXCEPT !.seq = ins.seq, !.log = lg.log,
                                                    !.tables = lg.tables,
                                                    !.error = ins.error,
                                                    !.gen_id = ins.gen_id],
                                         df, faults, k + 1)

\* mutant: the loop is left at the first row whose insert fails
populate_table_break(L, S, E, tabs, df, faults) ==
    LET st0 == [listings |-> L, seq |-> S, log |-> E, tables |-> tabs,
                error |-> "", gen_id |-> NoId]
        bad == {k \in 1..Len(df) :
                  populate_from(st0, SubSeq(df, 1, k), faults, 1).error # ""}
        stop == IF bad = {} THEN Len(df)
                ELSE CHOOSE k \in bad : \A j \in bad : k <= j
    IN  populate_from(st0, SubSeq(df, 1, stop), faults, 1)

\* mutant: a DataFrame with a failed row is submitted once more
populate_table_retry(L, S, E, tabs, df, faults) ==
    LET st0 == [listings |-> L, seq |-> S, log |-> E, tables |-> tabs,
                error |-> "", gen_id |-> NoId]
        r == populate_from(st0, df, faults, 1)
    IN  IF r.error # "" /\ ~r.raised
        THEN populate_from([listings |-> r.listings, seq |-> r.seq, log |-> r.log,
                            tables |-> r.tables, error |-> "", gen_id |-> NoId],
                           df, faults, 1)
        ELSE r

populate_table(L, S, E, tabs, df, faults) ==
    populate_from([listings |-> L, seq |-> S, log |-> E, tables |-> tabs,
                   error |-> "", gen_id |-> NoId], df, faults, 1)

\* load_existing_values: {row['name']: row['platform'] for each row}.  The
\* SELECT has no ORDER BY, so for a name stored under several platforms the
\* platform of whichever row comes last is kept: every such dict is possible.
load_existing_values(L) ==
    {f \in [{l.name : l \in L} -> Platforms] :
        \A n \in DOMAIN f : \E l \in L : l.name = n /\ l.platform = f[n]}

\* get_listing_id: fetchone() of SELECT listing_id ... WHERE name = %s AND
\* platform = 'booking'; None (NoId) when no row matches, any one of the
\* matching rows otherwise.
get_listing_id(L, name) ==
    LET hits == {l.listing_id : l \in {x \in L : x.name = name /\ x.platform = "booking"}}
    IN  IF hits = {} THEN {NoId} ELSE hits

\* mutant: conn.commit() is missing, so that the rollback after a failed
\* insert takes the row inserted before it along
insert_booking_data_no_commit(L, B, E, tabs, brow, fault) ==
    LET err == IF brow.listing_id # NoId /\ brow.listing_id \notin Ids(L)
               THEN "violates foreign key constraint"
               ELSE IF brow.price >= NumericLimit \/ brow.price <= -NumericLimit
                    THEN "numeric field overflow"
               ELSE ""
    IN  IF err = ""
        THEN [booking |-> Append(B, brow), log |-> E, tables |-> tabs,
              error |-> "", raised |-> FALSE]
        ELSE LET lg == log_error("booking", E, tabs, BookingText(brow), err, fault)
             IN  [booking |-> IF B = <<>> THEN B ELSE SubSeq(B, 1, Len(B) - 1),
                  log |-> lg.log, tables |-> lg.tables,
                  error |-> err, raised |-> lg.raised]

\* mutant: the except branch prints the error and rolls back, log_error is
\* not called
insert_booking_data_unlogged(L, B, E, tabs, brow, fault) ==
    LET err == IF brow.listing_id # NoId /\ brow.listing_id \notin Ids(L)
               THEN "violates foreign key constraint"
               ELSE IF brow.price >= NumericLimit \/ brow.price <= -NumericLimit
                    THEN "numeric field overflow"
               ELSE ""
    IN  IF err = ""
        THEN [booking |-> Append(B, brow), log |-> E, tables |-> tabs,
              error |-> "", raised |-> FALSE]
        ELSE [booking |-> B, log |-> E, tables |-> tabs, error |-> err,
              raised |-> FALSE]

\* insert_booking_data: INSERT INTO booking and commit; on an error rollback
\* and log_error('booking', ...).  A listing_id of None is stored as NULL,
\* which the foreign key lets pass.
insert_booking_data(L, B, E, tabs, brow, fault) ==
    LET err == IF brow.listing_id # NoId /\ brow.listing_id \notin Ids(L)
               THEN "violates foreign key constraint"
               ELSE IF brow.price >= NumericLimit \/ brow.price <= -NumericLimit
                    THEN "numeric field overflow"
               ELSE ""
    IN  IF err = ""
        THEN [booking |-> Append(B, brow), log |-> E, tables |-> tabs,
              error |-> "", raised |-> FALSE]
        ELSE LET lg == log_error("booking", E, tabs, BookingText(brow), err, fault)
             IN  [booking |-> B, log |-> lg.log, tables |-> lg.tables,
                  error |-> err, raised |-> lg.raised]

\* --------------------------------------------------------------- inputs
\* a cleaned booking record: flow_booking_data sets platform = 'booking'
BookingRecords ==
    [name : Names, neighbourhood_id : NeighbourhoodInputs, price : PriceInputs]

\* data/listings.csv: the index column counts from 1, platform = 'airbnb'
ListingFrames(max_rows) ==
    UNION {{[k \in 1..n |-> [listing_id |-> k, name |-> f[k].name, platform |-> "airbnb",
                             neighbourhood_id |-> f[k].neighbourhood_id]] :
              f \in [1..n -> [name : Names, neighbourhood_id : NeighbourhoodInputs]]} :
           n \in 0..max_rows}

NoRow == [name |-> "", neighbourhood_id |-> 0, price |-> 0]
NoLast == [row |-> NoRow, path |-> "NONE", gen_id |-> NoId, listing_error |-> "",
           listing_id |-> NoId, booking_error |-> "", outcome |-> "NONE"]
\* prev: the batch of the call before, kept when it was one record that was
\* processed to the end with its booking row stored (NoRow otherwise)
Snapshot == [listings |-> listings, booking |-> Len(booking),
             listings_error_log |-> Len(listings_error_log),
             booking_error_log |-> Len(booking_error_log),
             prev |-> IF i = 1 /\ last.outcome = "DONE" /\ last.booking_error = ""
                      THEN last.row ELSE NoRow]
\* add_booking_data has no return statement: it returns None, no summary
NoSummary == [summary |-> FALSE, inserted |-> 0, appended |-> 0, quarantined |-> 0]

\* no execute_query call has been made
NoCall ==
    [pc |-> "idle", conn |-> "none", commit |-> FALSE,
     row |-> [listing_id |-> NoId, name |-> "", platform |-> "", neighbourhood_id |-> 0],
     error |-> "", result |-> "none", rollback |-> FALSE, in_tx |-> FALSE, tx |-> {},
     calls |-> 0,
     before |-> [listings |-> {}, seq |-> [last_value |-> 1, is_called |-> FALSE]]]

\* the processes that may call add_booking_data at the same time
Writers == {1, 2}

\* a process that has not called add_booking_data yet
NoWriter ==
    [pc |-> "start", db_names |-> <<>>, max_id |-> 0, rows |-> 0, row |-> NoRow,
     path |-> "NONE", listing_error |-> "", gen_id |-> NoId]

\* the scraper has not been started
NoScrape ==
    [pc |-> "idle", test_mode |-> FALSE, links |-> 0, fetches |-> <<>>,
     hotel_info_list |-> <<>>, links_not_found |-> <<>>]

\* ----------------------------------------------------------------- Init
InitStore ==
    /\ pc = "init"
    /\ listings = {}
    /\ listing_id_seq = [last_value |-> 1, is_called |-> FALSE]
    /\ booking = <<>>
    /\ listings_error_log = <<>>
    /\ booking_error_log = <<>>
    /\ error_tables = {}
    /\ setup_rows = <<>>
    /\ db_names = <<>>
    /\ i = 0
    /\ rows_used = 0
    /\ run0 = [listings |-> {}, booking |-> 0, listings_error_log |-> 0,
               booking_error_log |-> 0, prev |-> NoRow]
    /\ last = NoLast
    /\ runs = 0
    /\ exc = "none"
    /\ pbar = 0
    /\ ret = NoSummary
    /\ shared_conn = "none"
    /\ batch = <<>>
    /\ done = <<>>
    /\ eq = NoCall
    /\ writers = [w \in Writers |-> NoWriter]
    /\ scrape = NoScrape

\* the setup script is not running
NoSetup ==
    [pc |-> "idle", k |-> 1, database |-> FALSE, schema |-> FALSE, tables |-> {},
     populated |-> {}, printed |-> FALSE, db_failed |-> FALSE, steps |-> 0,
     table_failed_at |-> 0]

Init == InitStore /\ su = NoSetup

\* -------------------------------------------------------------- actions
\* create_and_populate_database: CREATE TABLE listings (listing_id SERIAL ...)
\* and populate_table('listings', listings_table) with the ids of the csv;
\* an exception leaving populate_table ends the script.
bulk_load(max_rows, fault_domain) ==
    /\ pc = "init"
    /\ \E df \in ListingFrames(max_rows) : \E faults \in [1..Len(df) -> fault_domain] :
         LET r == populate_table({}, [last_value |-> 1, is_called |-> FALSE],
                                 <<>>, {}, df, faults)
         IN  /\ setup_rows' = df
             /\ listings' = r.listings
             /\ listing_id_seq' = r.seq
             /\ listings_error_log' = r.log
             /\ error_tables' = r.tables
             /\ exc' = IF r.raised THEN "log_error" ELSE "none"
             /\ pc' = IF r.raised THEN "crashed" ELSE "ready"
    /\ UNCHANGED <<booking, booking_error_log, db_names, i, rows_used, run0, last, runs,
                   pbar, ret, shared_conn, script_vars, batch_vars>>

create_and_populate_database == bulk_load(MaxSetupRows, LogFaults)

\* add_booking_data up to the loop: the natural-key index is loaded once, and
\* the sequence is set from the current maximum listing_id.
begin_call ==
    /\ pc = "ready"
    /\ db_names' \in load_existing_values(listings)
    /\ listing_id_seq' = set_listing_id_sequence(get_max_listing_id(listings))
    /\ i' = 0
    /\ run0' = Snapshot
    /\ last' = NoLast
    /\ runs' = runs + 1
    /\ exc' = "none"
    /\ pc' = "run"
    /\ pbar' = 0
    /\ shared_conn' = "idle"
    /\ UNCHANGED <<listings, booking, listings_error_log, booking_error_log,
                   error_tables, setup_rows, rows_used, ret, script_vars>>

add_booking_data_begin ==
    /\ runs < MaxRuns
    /\ begin_call
    /\ UNCHANGED batch_vars

\* mutant: the platform of the stored listing is not looked at
takes_append_path_any_platform(names, row) == row.name \in DOMAIN names

\* the branch test of the loop body
takes_append_path(names, row) ==
    row.name \in DOMAIN names /\ names[row.name] = "booking"

\* mutant: the identifier is resolved before populate_table is called
resolution_store_stale(before, after) == before

\* the else branch calls get_listing_id after populate_table has returned:
\* the lookup reads the store as the listing insert left it
resolution_store(before, after) == after

\* mutant: the None test after get_listing_id is left out
skips_row_never(listing_id) == FALSE

\* if not listing_id: continue
skips_row(listing_id) == listing_id = NoId

\* mutant: pbar.update(1) placed before the continue
pbar_update_always(n, skipped) == n + 1

\* pbar.update(1) at the end of the loop body, which continue jumps over
pbar_update(n, skipped) == IF skipped THEN n ELSE n + 1

\* the SELECT of get_listing_id on conn, which is not in autocommit mode:
\* it begins a transaction unless one is open
after_select(status) == IF status = "idle" THEN "intrans" ELSE status

\* cursor.execute of the INSERT on conn: an error aborts the transaction
after_execute(status, error) == IF error = "" THEN "intrans" ELSE "aborted"

\* mutant: the except branch only logs
rollback_left_out(status) == status

\* conn.rollback() in the except branch of insert_booking_data
rolled_back(status) == "idle"

\* conn.commit() after the INSERT
committed(status) == "idle"

\* conn after insert_booking_data has returned or raised
after_insert(status, error) ==
    IF error = "" THEN committed(after_execute(status, error))
    ELSE rolled_back(after_execute(status, error))

\* the body of the loop of add_booking_data for a row of df
row_step(row) ==
    /\ pc = "run"
    /\ \E f1 \in LogFaults, f2 \in LogFaults :
         LET append == takes_append_path(db_names, row)
             lrow == [listing_id |-> NoId, name |-> row.name, platform |-> "booking",
                      neighbourhood_id |-> row.neighbourhood_id]
             pop == IF append
                    THEN [listings |-> listings, seq |-> listing_id_seq,
                          log |-> listings_error_log, tables |-> error_tables,
                          raised |-> FALSE, attempted |-> 0, error |-> "",
                          gen_id |-> NoId]
                    ELSE populate_table(listings, listing_id_seq, listings_error_log,
                                        error_tables, <<lrow>>, <<f1>>)
         IN  \E lid \in get_listing_id(resolution_store(listings, pop.listings), row.name) :
               LET failed == ~pop.raised /\ shared_conn = "aborted"
                   skip == pop.raised \/ failed \/ skips_row(lid)
                   ins == IF skip
                          THEN [booking |-> booking, log |-> booking_error_log,
                                tables |-> pop.tables, error |-> "", raised |-> FALSE]
                          ELSE insert_booking_data(pop.listings, booking,
                                                   booking_error_log, pop.tables,
                                                   [listing_id |-> lid, price |-> row.price],
                                                   f2)
                   raised == pop.raised \/ failed \/ ins.raised
               IN  /\ listings' = pop.listings
                   /\ listing_id_seq' = pop.seq
                   /\ listings_error_log' = pop.log
                   /\ booking' = ins.booking
                   /\ booking_error_log' = ins.log
                   /\ error_tables' = ins.tables
                   /\ last' = [row |-> row,
                               path |-> IF append THEN "APPEND" ELSE "NEW_ENTITY",
                               gen_id |-> pop.gen_id,
                               listing_error |-> pop.error,
                               listing_id |-> IF pop.raised \/ failed THEN NoId ELSE lid,
                               booking_error |-> ins.error,
                               outcome |-> IF raised THEN "RAISED"
                                           ELSE IF skip THEN "SKIPPED" ELSE "DONE"]
                   /\ pbar' = IF raised THEN pbar ELSE pbar_update(pbar, skip)
                   /\ i' = i + 1
                   /\ rows_used' = rows_used + 1
                   /\ f1 # "ok" => pop.error # ""
                   /\ f2 # "ok" => ins.error # ""
                   /\ exc' = IF failed THEN "InFailedSqlTransaction"
                             ELSE IF raised THEN "log_error" ELSE "none"
                   /\ pc' = IF raised THEN "ready" ELSE "run"
                   /\ shared_conn' = IF pop.raised \/ failed THEN shared_conn
                                     ELSE IF skip THEN after_select(shared_conn)
                                     ELSE after_insert(after_select(shared_conn),
                                                       ins.error)
    /\ UNCHANGED <<setup_rows, db_names, run0, runs, ret, script_vars>>

\* one iteration of the loop, the row being whatever df holds next
add_booking_data_row ==
    /\ rows_used < MaxRows
    /\ \E row \in BookingRecords : row_step(row)
    /\ UNCHANGED batch_vars

\* df is exhausted (its length is whatever the scraper delivered): the loop
\* is over, pbar.close(), conn.close(), return
end_call ==
    /\ pc = "run"
    /\ pc' = "ready"
    /\ ret' = NoSummary
    /\ shared_conn' = "closed"
    /\ UNCHANGED <<listings, listing_id_seq, booking, listings_error_log,
                   booking_error_log, error_tables, setup_rows, db_names, i, rows_used,
                   run0, last, runs, exc, pbar, script_vars>>

add_booking_data_end == end_call /\ UNCHANGED batch_vars

Next ==
    \/ create_and_populate_database
    \/ add_booking_data_begin
    \/ add_booking_data_row
    \/ add_booking_data_end

Spec == Init /\ [][Next]_vars

\* populate_table on its own, over longer DataFrames than the pipeline's setup
populate_listings == bulk_load(MaxBulkRows, LogFaults)

NextBulk == populate_listings

SpecBulk == Init /\ [][NextBulk]_vars

\* populate_table on its own while the store may be unreachable for a row
populate_listings_unreachable == bulk_load(MaxBulkRows, RowFaults)

NextConn == populate_listings_unreachable

SpecConn == Init /\ [][NextConn]_vars

\* ------------------------------------------- add_booking_data on a batch
\* the DataFrames of up to max_rows cleaned records
Batches(max_rows) == UNION {[1..n -> BookingRecords] : n \in 0..max_rows}

\* add_booking_data(df), called once on the store that setup left
add_booking_data_call ==
    /\ runs = 0
    /\ begin_call
    /\ batch' \in Batches(MaxBatch)
    /\ done' = <<>>

\* mutant: the DataFrame is walked from its last row to its first
next_row_reversed(d, k) == d[Len(d) - k]

\* for _, row in df.iterrows(): the row after the k rows already taken
next_row(d, k) == d[k + 1]

\* one iteration of for _, row in df.iterrows()
add_booking_data_iter ==
    /\ i < Len(batch)
    /\ row_step(next_row(batch, i))
    /\ done' = Append(done, [row |-> last'.row, outcome |-> last'.outcome])
    /\ batch' = batch

\* the loop is over when df is exhausted: pbar.close(), conn.close(), return
add_booking_data_return ==
    /\ i = Len(batch)
    /\ end_call
    /\ UNCHANGED batch_vars

NextLoop ==
    \/ create_and_populate_database
    \/ add_booking_data_call
    \/ add_booking_data_iter
    \/ add_booking_data_return

SpecLoop == Init /\ [][NextLoop]_vars

\* ------------------------------------ two add_booking_data calls at once
\* what a step of a concurrent call leaves alone
single_vars == <<pc, setup_rows, db_names, i, rows_used, run0, last, runs, exc, pbar,
                 ret, shared_conn, batch, done, eq, su, scrape>>

\* db_names = self.load_existing_values('listings')
writer_load(w) ==
    /\ pc = "ready"
    /\ writers[w].pc = "start"
    /\ \E names \in load_existing_values(listings) :
         writers' = [writers EXCEPT ![w].pc = "loaded", ![w].db_names = names]
    /\ UNCHANGED <<listings, listing_id_seq, booking, listings_error_log,
                   booking_error_log, error_tables, single_vars>>

\* max_listing_id = self.get_max_listing_id()
writer_read_max(w) ==
    /\ writers[w].pc = "loaded"
    /\ writers' = [writers EXCEPT ![w].pc = "maxread",
                                  ![w].max_id = get_max_listing_id(listings)]
    /\ UNCHANGED <<listings, listing_id_seq, booking, listings_error_log,
                   booking_error_log, error_tables, single_vars>>

\* mutant: the maximum is read again in the statement that resets the sequence
reset_value_fresh(max_listing_id, L) == get_max_listing_id(L)

\* set_listing_id_sequence is handed the maximum read by the call before it
reset_value(max_listing_id, L) == max_listing_id

\* self.set_listing_id_sequence(max_listing_id)
writer_set_sequence(w) ==
    /\ writers[w].pc = "maxread"
    /\ listing_id_seq' = set_listing_id_sequence(reset_value(writers[w].max_id, listings))
    /\ writers' = [writers EXCEPT ![w].pc = "loop"]
    /\ UNCHANGED <<listings, booking, listings_error_log, booking_error_log,
                   error_tables, single_vars>>

\* mutant: the branch test reads the store, not the index loaded at the start
index_fresh(names, L) == CHOOSE f \in load_existing_values(L) :
                            \A n \in DOMAIN f : \A l \in L :
                                (l.name = n /\ l.platform = "booking") => f[n] = "booking"

\* the branch test reads db_names as loaded at the start of the call
index_used(names, L) == names

\* the rows the concurrent calls have taken from their DataFrames so far
WriterRows == writers[1].rows + writers[2].rows

\* the records of the concurrent calls: their prices fit the column
WriterRecords == {r \in BookingRecords : r.price < NumericLimit}

\* the loop body up to populate_table: the branch test and, in the else
\* branch, the listing insert
writer_insert(w) ==
    /\ writers[w].pc = "loop"
    /\ WriterRows < MaxWriterRows
    /\ \E row \in WriterRecords :
         LET append == takes_append_path(index_used(writers[w].db_names, listings), row)
             lrow == [listing_id |-> NoId, name |-> row.name, platform |-> "booking",
                      neighbourhood_id |-> row.neighbourhood_id]
             pop == IF append
                    THEN [listings |-> listings, seq |-> listing_id_seq,
                          log |-> listings_error_log, tables |-> error_tables,
                          raised |-> FALSE, attempted |-> 0, error |-> "",
                          gen_id |-> NoId]
                    ELSE populate_table(listings, listing_id_seq, listings_error_log,
                                        error_tables, <<lrow>>, <<"ok">>)
         IN  /\ listings' = pop.listings
             /\ listing_id_seq' = pop.seq
             /\ listings_error_log' = pop.log
             /\ error_tables' = pop.tables
             /\ writers' = [writers EXCEPT
                   ![w].pc = "resolve", ![w].row = row, ![w].rows = @ + 1,
                   ![w].path = IF append THEN "APPEND" ELSE "NEW_ENTITY",
                   ![w].listing_error = pop.error, ![w].gen_id = pop.gen_id]
    /\ UNCHANGED <<booking, booking_error_log, single_vars>>

\* the rest of the loop body: get_listing_id and insert_booking_data
writer_append(w) ==
    /\ writers[w].pc = "resolve"
    /\ \E lid \in get_listing_id(listings, writers[w].row.name) :
         LET ins == IF skips_row(lid)
                    THEN [booking |-> booking, log |-> booking_error_log,
                          tables |-> error_tables, error |-> "", raised |-> FALSE]
                    ELSE insert_booking_data(listings, booking, booking_error_log,
                                             error_tables,
                                             [listing_id |-> lid,
                                              price |-> writers[w].row.price], "ok")
         IN  /\ booking' = ins.booking
             /\ booking_error_log' = ins.log
             /\ error_tables' = ins.tables
    /\ writers' = [writers EXCEPT ![w].pc = "loop"]
    /\ UNCHANGED <<listings, listing_id_seq, listings_error_log, single_vars>>

\* df is exhausted: pbar.close(), conn.close()
writer_end(w) ==
    /\ writers[w].pc = "loop"
    /\ writers' = [writers EXCEPT ![w].pc = "done"]
    /\ UNCHANGED <<listings, listing_id_seq, booking, listings_error_log,
                   booking_error_log, error_tables, single_vars>>

NextTwo ==
    \/ create_and_populate_database
    \/ \E w \in Writers : writer_load(w)
    \/ \E w \in Writers : writer_read_max(w)
    \/ \E w \in Writers : writer_set_sequence(w)
    \/ \E w \in Writers : writer_insert(w)
    \/ \E w \in Writers : writer_append(w)
    \/ \E w \in Writers : writer_end(w)

SpecTwo == Init /\ [][NextTwo]_vars

\* -------------------------------------------- get_all_hotel_information
\* what the scraper leaves alone
load_vars == <<listings, listing_id_seq, pc, booking, listings_error_log,
               booking_error_log, error_tables, setup_rows, db_names, i, rows_used,
               run0, last, runs, exc, pbar, ret, shared_conn, batch, done, eq, su,
               writers>>

\* get_hotel_information returns the list of the hotel's values, or None
\* after a timeout, a missing element or any other exception
FetchResults == {"info", "None"}

\* the links a test run is cut to
test_size == 20

\* the length of links_df['Links'][:test_size]
sliced(len, test_mode) ==
    IF test_mode /\ len > test_size THEN test_size ELSE len

\* links_df is read, the lists are empty, the WebDriver is there; the links
\* the loop runs over are numbered as they stand in the csv
scrape_begin ==
    /\ scrape.pc = "idle"
    /\ \E len \in 0..MaxLinks, test_mode \in BOOLEAN :
         scrape' = [NoScrape EXCEPT !.pc = "loop", !.test_mode = test_mode,
                                    !.links = sliced(len, test_mode)]
    /\ UNCHANGED load_vars

\* mutant: the second fetch is made whatever the first returned
fetch_twice(first, second) == <<first, second>>

\* hotel_info = get_hotel_information(link, driver), and once more if it is
\* None: the results of the calls made for one link
fetch_link(first, second) == IF first = "None" THEN <<first, second>> ELSE <<first>>

\* one iteration of the loop over the links
scrape_link ==
    /\ scrape.pc = "loop"
    /\ Len(scrape.fetches) < scrape.links
    /\ \E first \in FetchResults, second \in FetchResults :
         LET link == Len(scrape.fetches) + 1
             calls == fetch_link(first, second)
             hotel_info == calls[Len(calls)]
         IN  scrape' = [scrape EXCEPT
                 !.fetches = Append(@, calls),
                 !.hotel_info_list = IF hotel_info # "None" THEN Append(@, link) ELSE @,
                 !.links_not_found = IF hotel_info # "None" THEN @ ELSE Append(@, link)]
    /\ UNCHANGED load_vars

\* the loop is over: booking_df is built from hotel_info_list
scrape_end ==
    /\ scrape.pc = "loop"
    /\ Len(scrape.fetches) = scrape.links
    /\ scrape' = [scrape EXCEPT !.pc = "done"]
    /\ UNCHANGED load_vars

NextScrape ==
    \/ scrape_begin
    \/ scrape_link
    \/ scrape_end

SpecScrape == Init /\ [][NextScrape]_vars

\* --------------------------------------------------------- execute_query
\* execute_query(query, params, dbname, commit) statement by statement, the
\* query being an INSERT INTO listings of one row
StatementRows ==
    [listing_id : {NoId, 1, 2}, name : Names, platform : {"booking"},
     neighbourhood_id : NeighbourhoodInputs]

\* conn = self.connect(dbname); conn.autocommit = commit; cursor = conn.cursor()
\* connect() stands before the try: when it raises no connection was opened
execute_query_connect ==
    /\ eq.pc = "idle"
    /\ eq.calls < MaxCalls
    /\ \E commit \in BOOLEAN, row \in StatementRows, reachable \in BOOLEAN :
         eq' = IF reachable
               THEN [NoCall EXCEPT !.pc = "try", !.conn = "open", !.commit = commit,
                                   !.row = row, !.calls = eq.calls,
                                   !.before = [listings |-> listings,
                                               seq |-> listing_id_seq]]
               ELSE [NoCall EXCEPT !.commit = commit, !.row = row,
                                   !.error = OperationalError, !.result = "raised",
                                   !.calls = eq.calls + 1,
                                   !.before = [listings |-> listings,
                                               seq |-> listing_id_seq]]
    /\ UNCHANGED <<listings, listing_id_seq, ingest_vars, su>>

\* cursor.execute(query, params): with autocommit the row is stored at once;
\* without it the row stays in the connection's open transaction.  The
\* sequence value the statement drew is consumed either way.
execute_query_execute ==
    /\ eq.pc = "try"
    /\ LET ins == ListingInsert(listings, listing_id_seq, eq.row)
       IN  /\ listing_id_seq' = ins.seq
           /\ listings' = IF ins.error = "" /\ eq.commit THEN ins.listings ELSE listings
           /\ eq' = IF ins.error # ""
                    THEN [eq EXCEPT !.pc = "except", !.error = ins.error,
                                    !.in_tx = ~eq.commit]
                    ELSE IF eq.commit
                    THEN [eq EXCEPT !.pc = "commit"]
                    ELSE [eq EXCEPT !.pc = "finally", !.result = "returned",
                                    !.in_tx = TRUE, !.tx = ins.listings \ listings]
    /\ UNCHANGED <<ingest_vars, su>>

\* if commit: conn.commit() -- under autocommit there is nothing left to commit
execute_query_commit ==
    /\ eq.pc = "commit"
    /\ eq' = [eq EXCEPT !.pc = "finally", !.result = "returned"]
    /\ UNCHANGED <<listings, listing_id_seq, ingest_vars, su>>

\* except: print, conn.rollback() if commit, raise error
execute_query_except ==
    /\ eq.pc = "except"
    /\ eq' = [eq EXCEPT !.pc = "finally", !.rollback = eq.commit, !.result = "raised"]
    /\ UNCHANGED <<listings, listing_id_seq, ingest_vars, su>>

\* mutant: conn.close() at the end of the try block instead of in finally
close_on_success_only(conn, error) == IF error = "" THEN "closed" ELSE conn

\* finally: conn.close()
finally_close(conn, error) == "closed"

\* mutant: the connection is left through a context manager that commits
after_close_commits(L, tx) == L \cup tx

\* closing a connection discards what its open transaction wrote
after_close(L, tx) == L

execute_query_finally ==
    /\ eq.pc = "finally"
    /\ eq' = [eq EXCEPT !.pc = "idle", !.conn = finally_close(eq.conn, eq.error),
                        !.in_tx = FALSE, !.tx = {}, !.calls = eq.calls + 1]
    /\ listings' = after_close(listings, eq.tx)
    /\ UNCHANGED <<listing_id_seq, ingest_vars, su>>

NextExec ==
    \/ execute_query_connect
    \/ execute_query_execute
    \/ execute_query_commit
    \/ execute_query_except
    \/ execute_query_finally

SpecExec == Init /\ [][NextExec]_vars

\* ------------------------------------------- create_and_populate_database
\* the tables in the order create_and_populate_database creates them
TableOrder == <<"neighbourhoods", "room_types", "property_types", "hosts",
                "listings", "airbnb", "booking">>

\* FOREIGN KEY ... REFERENCES of the column definitions
References(t) ==
    IF t = "listings" THEN {"neighbourhoods", "room_types"}
    ELSE IF t = "airbnb" THEN {"listings", "property_types", "hosts"}
    ELSE IF t = "booking" THEN {"listings"}
    ELSE {}

\* what the script may find when it starts: no database, a database without
\* the schema, or a schema holding some of the tables (left by an earlier
\* run, some perhaps dropped since)
SetupStarts ==
    {[NoSetup EXCEPT !.pc = "create_database", !.database = d, !.schema = sc,
                     !.tables = ts] :
        d \in BOOLEAN, sc \in BOOLEAN,
        ts \in SUBSET {TableOrder[j] : j \in 1..Len(TableOrder)}}

InitSetup ==
    /\ InitStore
    /\ su \in {x \in SetupStarts : (x.schema => x.database) /\ (x.tables # {} => x.schema)}

\* mutant: the except clause of create_database re-raises
after_create_database_raise(failed) == IF failed THEN "raised" ELSE "create_table"

\* create_database: its except clause prints the error and returns
after_create_database(failed) == "create_table"

\* database.create_database(): CREATE DATABASE, then CREATE SCHEMA, in one
\* try; f1, f2: the statement fails for another reason than an existing object
setup_create_database ==
    /\ su.pc = "create_database"
    /\ \E f1 \in BOOLEAN, f2 \in BOOLEAN :
         LET db_fail == su.database \/ f1
             schema_fail == ~db_fail /\ (su.schema \/ f2)
             failed == db_fail \/ schema_fail
         IN  su' = [su EXCEPT !.pc = after_create_database(failed),
                              !.database = su.database \/ ~db_fail,
                              !.schema = su.schema \/ (~db_fail /\ ~schema_fail),
                              !.printed = failed,
                              !.db_failed = failed]
    /\ UNCHANGED <<listings, listing_id_seq, ingest_vars, eq>>

\* mutant: create_table catches and prints like create_database
after_create_table_caught(failed, k) ==
    IF k = Len(TableOrder) THEN "returned" ELSE "populate_table"

\* create_table has no try: the error of execute_query leaves the script
after_create_table(failed, k) ==
    IF failed THEN "raised"
    ELSE IF k = Len(TableOrder) THEN "returned" ELSE "populate_table"

\* database.create_table(TableOrder[k], ...)
setup_create_table ==
    /\ su.pc = "create_table"
    /\ \E f \in BOOLEAN :
         LET t == TableOrder[su.k]
             failed == \/ ~su.database \/ ~su.schema \/ t \in su.tables
                       \/ ~(References(t) \subseteq su.tables) \/ f
         IN  su' = [su EXCEPT !.pc = after_create_table(failed, su.k),
                              !.tables = IF failed THEN su.tables ELSE su.tables \cup {t},
                              !.steps = su.steps + 1,
                              !.table_failed_at =
                                  IF failed /\ su.table_failed_at = 0
                                  THEN su.steps + 1 ELSE su.table_failed_at]
    /\ UNCHANGED <<listings, listing_id_seq, ingest_vars, eq>>

\* database.populate_table(TableOrder[k], ...): it returns, or an error of
\* log_error leaves it and the script
setup_populate_table ==
    /\ su.pc = "populate_table"
    /\ \E raised \in BOOLEAN :
         su' = [su EXCEPT !.pc = IF raised THEN "raised" ELSE "create_table",
                          !.k = su.k + 1,
                          !.populated = su.populated \cup {TableOrder[su.k]},
                          !.steps = su.steps + 1]
    /\ UNCHANGED <<listings, listing_id_seq, ingest_vars, eq>>

NextSetup ==
    \/ setup_create_database
    \/ setup_create_table
    \/ setup_populate_table

SpecSetup == InitSetup /\ [][NextSetup]_vars

\* --------------------------------------------------------------- claims
KeyRows(L, name, platform) == {l \in L : l.name = name /\ l.platform = platform}
UniqueKeys(L) == \A a \in L, b \in L : (a.name = b.name /\ a.platform = b.platform) => a = b
\* a step of add_booking_data_row
RowStep == rows_used' = rows_used + 1

\* C1: after any sequence of ingest runs by a single writer on a store that
\* began with at most one listing per (name, platform), listings holds at
\* most one row per (name, platform).  (Runs add listings under 'booking'
\* only, so the store began unique exactly if its airbnb rows are unique.)
C1_OneListingPerNaturalKey ==
    UniqueKeys({l \in listings : l.platform = "airbnb"}) => UniqueKeys(listings)

\* C2: within one call, of the records sharing a natural key that was absent
\* from the store when the call began only the first creates a listing: at
\* every point of the call such a key has at most one listing.
C2_NewKeyCreatedOncePerCall ==
    pc = "run" =>
        \A n \in Names :
            KeyRows(run0.listings, n, "booking") = {}
                => Cardinality(KeyRows(listings, n, "booking")) <= 1

\* C3: a record whose natural key is present in listings under 'booking'
\* when it is processed inserts no listing row and, its booking row violating
\* no constraint, appends exactly one booking row under the identifier of an
\* existing listing with that key.
C3_PresentKeyOnlyAppends ==
    [][(RowStep /\ KeyRows(listings, last'.row.name, "booking") # {}
               /\ last'.row.price < NumericLimit)
        => /\ listings' = listings
           /\ Len(booking') = Len(booking) + 1
           /\ booking'[Len(booking')].listing_id
                \in Ids(KeyRows(listings, last'.row.name, "booking"))]_vars

\* C4: a record whose natural key is absent from the store when it is
\* processed and whose listing row violates no constraint (foreign key,
\* primary key) creates exactly one listing row with that (name, platform).
C4_AbsentKeyCreatesOneListing ==
    [][(RowStep /\ KeyRows(listings, last'.row.name, "booking") = {}
               /\ last'.row.neighbourhood_id \in district_mapping
               /\ NextVal(listing_id_seq) \notin Ids(listings))
        => /\ listings \subseteq listings'
           /\ Cardinality(listings' \ listings) = 1
           /\ \A l \in listings' \ listings :
                l.name = last'.row.name /\ l.platform = "booking"]_vars

C4_Witness ==
    /\ last.path = "NEW_ENTITY"
    /\ last.listing_error = ""
    /\ \E l \in listings : /\ l.listing_id = last.gen_id
                           /\ l.name = last.row.name
                           /\ l.platform = "booking"
    /\ Cardinality(KeyRows(listings, last.row.name, "booking")) = 1
    /\ KeyRows(listings, last.row.name, "airbnb") # {}

\* the rows of the bulk-loaded DataFrame that break / keep the foreign key
FailingRows == SelectSeq(setup_rows, LAMBDA r : r.neighbourhood_id \notin district_mapping)
PassingRows == SelectSeq(setup_rows, LAMBDA r : r.neighbourhood_id \in district_mapping)

\* C5: populate_table attempts every row in the order given, whatever failed
\* before: when no quarantine write fails, the rows whose insert raises are
\* in listings_error_log, in order, with their values as text and a non-empty
\* reason, and all other rows are persisted: K failures give K quarantine
\* rows and N-K persisted rows.
C5_PopulateQuarantinesAndContinues ==
    (pc = "ready" /\ exc = "none") =>
        /\ Len(listings_error_log) = Len(FailingRows)
        /\ \A k \in 1..Len(FailingRows) :
             /\ listings_error_log[k].listing_id = ToString(FailingRows[k].listing_id)
             /\ listings_error_log[k].name = FailingRows[k].name
             /\ listings_error_log[k].platform = FailingRows[k].platform
             /\ listings_error_log[k].neighbourhood_id
                  = ToString(FailingRows[k].neighbourhood_id)
             /\ listings_error_log[k].error_message # ""
        /\ listings = {PassingRows[k] : k \in 1..Len(PassingRows)}
        /\ Cardinality(listings) = Len(setup_rows) - Len(FailingRows)

C5_Witness ==
    /\ pc = "ready"
    /\ exc = "none"
    /\ Len(setup_rows) = 3
    /\ setup_rows[1].neighbourhood_id \notin district_mapping
    /\ setup_rows[2].neighbourhood_id \in district_mapping
    /\ setup_rows[3].neighbourhood_id \notin district_mapping
    /\ Len(listings_error_log) = 2
    /\ Cardinality(listings) = 1

\* C6: a failure inside log_error never leaves populate_table or
\* add_booking_data as an exception.
C6_LogErrorFailureContained == exc # "log_error"

\* C7: in an ingest run every generator-assigned listing insert receives an
\* identifier greater than every stored listing_id, so none fails on the
\* primary key.
C7_GeneratedIdAboveStored ==
    [][(RowStep /\ listing_id_seq' # listing_id_seq)
        => /\ \A id \in Ids(listings) : NextVal(listing_id_seq) > id
           /\ last'.gen_id = NextVal(listing_id_seq)
           /\ last'.listing_error # "duplicate key value violates unique constraint"]_vars

C7_Witness ==
    /\ \E a \in listings : a.platform = "airbnb" /\ a.listing_id = last.gen_id - 1
    /\ \E b \in listings : b.platform = "booking" /\ b.listing_id = last.gen_id
    /\ last.listing_error = ""

\* C8 as claimed: in every reachable state of the pipeline the generator's
\* next value is greater than every stored listing_id.
C8_GeneratorAboveStoredAlways ==
    \A id \in Ids(listings) : NextVal(listing_id_seq) > id

\* C8 as amended: in every state reached once an ingest run has set the
\* sequence, the generator's next value is greater than every stored
\* listing_id.
C8_GeneratorAboveStoredAfterResync ==
    runs >= 1 => \A id \in Ids(listings) : NextVal(listing_id_seq) > id

C8_Witness ==
    /\ runs >= 1
    /\ pc = "ready"
    /\ \E a \in listings : a.platform = "airbnb"
    /\ \E b \in listings : b.platform = "booking"

\* C9: after get_max_listing_id and set_listing_id_sequence the next
\* generator-assigned insert receives exactly max(listing_id) + 1, and 1 when
\* listings is empty.  (No listing insert has been attempted since the call
\* began exactly if listings and its error log are as they were then: a
\* failed insert is logged, or its exception ends the call.)
C9_ResyncGivesMaxPlusOne ==
    [][(RowStep /\ listings = run0.listings
                /\ Len(listings_error_log) = run0.listings_error_log
                /\ last'.path = "NEW_ENTITY")
        => /\ last'.gen_id = SetMax(Ids(listings)) + 1
           /\ listings = {} => last'.gen_id = 1
           /\ \A l \in listings' \ listings : l.listing_id = SetMax(Ids(listings)) + 1]_vars

C9_Witness ==
    /\ pc = "run"
    /\ i = 1
    /\ last.path = "NEW_ENTITY"
    /\ last.listing_error = ""
    /\ \E a \in listings : a.platform = "airbnb"
    /\ \E b \in listings : /\ b.platform = "booking"
                           /\ b.listing_id = SetMax(Ids(listings \ {b})) + 1

\* C10: a record on the NEW_ENTITY path whose listing insert violates a
\* constraint ends SKIPPED: with the quarantine write succeeding, no listing
\* row is inserted, exactly one row goes to listings_error_log and no booking
\* row is appended.
C10_QuarantinedListingIsSkipped ==
    [][(RowStep /\ last'.path = "NEW_ENTITY" /\ last'.listing_error # ""
               /\ exc' = "none")
        => /\ listings' = listings
           /\ Len(listings_error_log') = Len(listings_error_log) + 1
           /\ booking' = booking
           /\ last'.outcome = "SKIPPED"]_vars

\* C11: re-running ingest with an unchanged record set adds zero listing
\* rows and one further booking row for every record whose booking row was
\* appended in the first run.  (Stated for a record set of one record: the
\* call before processed exactly this record and stored its booking row.)
C11_RerunAddsNoListing ==
    [][(RowStep /\ i = 0 /\ run0.prev # NoRow /\ last'.row = run0.prev)
        => /\ listings' = listings
           /\ Len(booking') = Len(booking) + 1]_vars

\* C12: every booking row inserted by ingest carries a listing_id of a
\* listing row that is in the store at the moment of the insert (and
\* listings rows are never deleted, so in every state after it).
C12_BookingReferencesListing ==
    \A k \in 1..Len(booking) : booking[k].listing_id \in Ids(listings)

C12_Witness ==
    /\ last.path = "NEW_ENTITY" /\ last.outcome = "DONE" /\ last.booking_error = ""
    /\ Len(booking) > run0.booking
    /\ booking[Len(booking)].listing_id = last.listing_id

\* the counts of a run so far: listing rows created, booking rows appended,
\* quarantine rows written
RunInserted == Cardinality(listings \ run0.listings)
RunAppended == Len(booking) - run0.booking
RunQuarantined ==
    (Len(listings_error_log) - run0.listings_error_log)
        + (Len(booking_error_log) - run0.booking_error_log)

C19_OtherPlatformCreatesOwnListing ==
    [][(RowStep /\ last'.row.name \in DOMAIN db_names
               /\ db_names[last'.row.name] # "booking"
               /\ last'.row.neighbourhood_id \in district_mapping
               /\ last'.row.price < NumericLimit)
        => /\ last'.path = "NEW_ENTITY"
           /\ listings \subseteq listings'
           /\ \E l \in listings' \ listings :
                /\ listings' = listings \cup {l}
                /\ l.name = last'.row.name /\ l.platform = "booking"
                /\ Len(booking') = Len(booking) + 1
                /\ booking'[Len(booking')].listing_id = l.listing_id]_vars

\* C20: when the booking insert of a record fails, exactly one row
\* (listing_id, ..., price, reason) is written to booking_error_log with each
\* value under its own column, no booking row is stored for the record, and
\* the next record is still processed.
C20_BookingFailureQuarantined ==
    [][(RowStep /\ last'.booking_error # "")
        => /\ booking' = booking
           /\ Len(booking_error_log') = Len(booking_error_log) + 1
           /\ booking_error_log'[Len(booking_error_log')] =
                [listing_id |-> ToString(last'.listing_id),
                 price |-> ToString(last'.row.price),
                 error_message |-> last'.booking_error]
           /\ pc' = "run"]_vars

\* C15: a connectivity error raised while a row is being inserted aborts
\* populate_table and propagates to the caller: it is never converted into
\* a quarantine row (and so no later row is attempted after one).
C15_ConnectivityErrorNotQuarantined ==
    \A k \in 1..Len(listings_error_log) :
        listings_error_log[k].error_message # OperationalError

\* C13: execute_query closes the connection it opened on every exit path:
\* after a successful statement, after a successful commit, and after the
\* statement raises.
C13_ConnectionClosedOnExit ==
    (eq.pc = "idle" /\ eq.result # "none" /\ eq.conn # "none") => eq.conn = "closed"

C13_Witness ==
    /\ eq.pc = "idle" /\ eq.result = "raised" /\ eq.conn = "closed"
    /\ eq.commit /\ eq.rollback
    /\ eq.error = "violates foreign key constraint"

\* a statement raised inside the last execute_query call
StatementRaised == eq.pc = "idle" /\ eq.conn # "none" /\ eq.error # ""
\* the last call was made with commit = False and is over
NoCommitCallOver == eq.pc = "idle" /\ eq.conn # "none" /\ ~eq.commit

\* C14 as stated: when the statement raises, the error is re-raised (after a
\* rollback when commit was requested) and the store, tables and identifier
\* generator, is as before the call; a call with commit = False leaves the
\* store as it was, whether it succeeds or fails.
C14_RaiseLeavesStoreUnchanged ==
    /\ StatementRaised
          => /\ eq.result = "raised"
             /\ eq.rollback = eq.commit
             /\ listings = eq.before.listings
             /\ listing_id_seq = eq.before.seq
    /\ NoCommitCallOver
          => /\ listings = eq.before.listings
             /\ listing_id_seq = eq.before.seq

\* C14 amended: as stated, but for the tables only: the identifier generator
\* keeps a value that the statement drew (it stands at or one above its
\* position before the call).
C14_RaiseLeavesTablesUnchanged ==
    /\ StatementRaised
          => /\ eq.result = "raised"
             /\ eq.rollback = eq.commit
             /\ listings = eq.before.listings
    /\ NoCommitCallOver => listings = eq.before.listings
    /\ (StatementRaised \/ NoCommitCallOver)
          => NextVal(listing_id_seq) \in
                {NextVal(eq.before.seq), NextVal(eq.before.seq) + 1}

C14_Witness ==
    /\ StatementRaised /\ eq.commit /\ eq.rollback /\ eq.result = "raised"
    /\ eq.row.listing_id = NoId
    /\ listing_id_seq # eq.before.seq
    /\ listings = eq.before.listings
    /\ listings # {}

\* C17 as stated: a failure of create_database or create_table (a repeated
\* creation of an existing object included) is raised to the caller and is
\* fatal to setup: no later step of create_and_populate_database runs.
C17_CreationFailureFatal ==
    /\ su.db_failed => (su.pc = "raised" /\ su.steps = 0)
    /\ su.table_failed_at # 0 => (su.pc = "raised" /\ su.steps = su.table_failed_at)

\* C17 amended: a failure of create_table is raised and is fatal to setup,
\* no later step runs.  A failure of create_database (of CREATE DATABASE or
\* CREATE SCHEMA) is printed, not raised: setup goes on with the first
\* create_table.
C17_TableFailureFatal ==
    /\ su.table_failed_at # 0 => (su.pc = "raised" /\ su.steps = su.table_failed_at)
    /\ su.db_failed => /\ su.printed
                       /\ su.pc # "create_database"
                       /\ su.steps = 0 => su.pc = "create_table"

C17_Witness ==
    /\ su.db_failed /\ su.printed
    /\ su.table_failed_at = 1 /\ su.pc = "raised"
    /\ "neighbourhoods" \in su.tables

\* listing insert attempts of the run so far: every one draws one value from
\* the sequence, which the run set to max + 1 when it began
ListingAttempts ==
    NextVal(listing_id_seq)
        - NextVal(set_listing_id_sequence(get_max_listing_id(run0.listings)))

\* C21: no failed write is retried: in a run the i records processed so far
\* caused at most i insert attempts on listings and at most i on booking
\* (each leaving one stored row or one quarantine row at most), and a
\* quarantined row is not submitted again: an attempt leaves one listing
\* row or one quarantine row, never more.
C21_NoRetry ==
    (runs >= 1 /\ pc \in {"run", "ready"})
        => /\ ListingAttempts <= i
           /\ RunAppended + (Len(booking_error_log) - run0.booking_error_log) <= i
           /\ RunInserted + (Len(listings_error_log) - run0.listings_error_log)
                 <= ListingAttempts

C21_Witness ==
    /\ pc = "run" /\ i = 2
    /\ ListingAttempts = 2
    /\ Len(listings_error_log) - run0.listings_error_log = 1
    /\ Len(booking_error_log) - run0.booking_error_log = 1

\* the run is over and no exception left it
CompletedNormally == runs >= 1 /\ pc = "ready" /\ exc = "none"
\* every row of the batch was processed once, in the order of the batch, and
\* reached DONE or SKIPPED; the DONE ones left a booking row or a quarantine
\* row each
ProcessedInOrder ==
    /\ Len(done) = Len(batch)
    /\ \A k \in 1..Len(batch) :
         /\ done[k].row = batch[k]
         /\ done[k].outcome \in {"DONE", "SKIPPED"}
    /\ Cardinality({k \in 1..Len(done) : done[k].outcome = "DONE"})
          = RunAppended + (Len(booking_error_log) - run0.booking_error_log)

\* C22: every store call returning or raising, an ingest run over a finite
\* batch terminates: every step of the run (each of which ends, by the
\* assumption) either ends the run or lowers the number of rows left, which
\* is never negative.  When the run
\* completes normally every record has been processed exactly once, in the
\* order supplied, and has reached DONE or SKIPPED.
C22_RunTerminatesAllProcessed ==
    /\ [](CompletedNormally => ProcessedInOrder)
    /\ [](pc = "run" => (i <= Len(batch) /\ Len(done) = i))
    /\ [][pc = "run" => (pc' = "ready" \/ Len(batch') - i' < Len(batch) - i)]_vars

C22_Witness ==
    /\ CompletedNormally
    /\ Len(batch) = 2
    /\ batch[1] # batch[2]
    /\ done[1].outcome = "SKIPPED"
    /\ done[2].outcome = "DONE"

\* C23: ingest is append-only on listings and booking: no step of
\* add_booking_data deletes or changes a stored row; both row sets only grow
\* and a stored listing keeps its listing_id, name and platform.
C23_AppendOnly ==
    [][(runs >= 1 \/ runs' >= 1)
        => /\ listings \subseteq listings'
           /\ Len(booking') >= Len(booking)
           /\ SubSeq(booking', 1, Len(booking)) = booking]_vars

C23_Witness ==
    /\ pc = "run"
    /\ run0.listings # {}
    /\ listings # run0.listings
    /\ Len(booking) >= 1
    /\ last.booking_error # "" /\ last.outcome = "DONE"

\* an insert into listings / into booking fails in the step taken
ListingsFailure ==
    \/ RowStep /\ last'.listing_error # ""
    \/ pc = "init" /\ \E k \in 1..Len(setup_rows') :
                        setup_rows'[k].neighbourhood_id \notin district_mapping
BookingFailure == RowStep /\ last'.booking_error # ""

\* C24: <target>_error_log does not exist until the first failure against
\* the target table and is created by that failure; every later failure
\* against the same target appends to that one table: the table is never
\* dropped and the quarantine rows written before stay as they are.
C24_QuarantineTableLazy ==
    [][/\ ("listings_error_log" \in error_tables' \ error_tables) => ListingsFailure
       /\ ("booking_error_log" \in error_tables' \ error_tables) => BookingFailure
       /\ error_tables \subseteq error_tables'
       /\ Len(listings_error_log') > 0 => "listings_error_log" \in error_tables'
       /\ Len(booking_error_log') > 0 => "booking_error_log" \in error_tables'
       /\ Len(listings_error_log') >= Len(listings_error_log)
       /\ SubSeq(listings_error_log', 1, Len(listings_error_log)) = listings_error_log
       /\ Len(booking_error_log') >= Len(booking_error_log)
       /\ SubSeq(booking_error_log', 1, Len(booking_error_log)) = booking_error_log]_vars

C24_Witness ==
    /\ Len(listings_error_log) = 2
    /\ listings # {}
    /\ error_tables = {"listings_error_log"}

InsertedUnseen(w, n) ==
    /\ writers[w].pc \in {"resolve", "loop", "done"}
    /\ writers[w].rows >= 1
    /\ ~takes_append_path(writers[w].db_names, [name |-> n])
    /\ writers[w].row.name = n
    /\ writers[w].listing_error = ""

\* C26: resolve-then-insert is not atomic: when two concurrent ingest runs
\* both loaded their index before (n, 'booking') was stored and both process
\* a record named n, both insert it: the store then holds two listings for
\* the one (name, platform).
C26_TwoWritersDuplicateKey ==
    \A n \in Names :
        (\A w \in Writers : InsertedUnseen(w, n))
            => Cardinality(KeyRows(listings, n, "booking")) >= 2

C26_Witness ==
    \E n \in Names :
        /\ \A w \in Writers : InsertedUnseen(w, n) /\ writers[w].rows = 1
        /\ Cardinality(KeyRows(listings, n, "booking")) = 2

DuplicateKey == "duplicate key value violates unique constraint"

\* C27: the maximum is read and the generator reset in two separate steps:
\* the reset uses the maximum as read, whatever the other run has inserted
\* since, so it can put the generator at an identifier already stored; a
\* generator-assigned insert that draws a stored identifier fails on the
\* primary key.
C27_StaleResetCollides ==
    [][\A w \in Writers :
        /\ (writers[w].pc = "maxread" /\ writers'[w].pc = "loop")
              => listing_id_seq' = set_listing_id_sequence(writers[w].max_id)
        /\ (writers[w].pc = "loop" /\ writers'[w].pc = "resolve"
               /\ writers'[w].path = "NEW_ENTITY"
               /\ NextVal(listing_id_seq) \in Ids(listings))
              => /\ writers'[w].listing_error = DuplicateKey
                 /\ listings' = listings]_vars

C27_Witness ==
    \E w \in Writers, v \in Writers :
        /\ w # v
        /\ writers[w].listing_error = DuplicateKey
        /\ writers[v].listing_error = ""
        /\ writers[v].gen_id = writers[w].gen_id
        /\ writers[w].gen_id \in Ids(listings)

\* the links a list of link numbers holds
LinksIn(list) == {list[k] : k \in 1..Len(list)}

\* C28: for each link the producer makes at most two fetch attempts, the
\* second only when the first returned nothing, and after the loop every
\* link the loop ran over is in exactly one of the scraped-result list and
\* the not-found list.
C28_RetryOnceThenSkip ==
    /\ \A k \in 1..Len(scrape.fetches) :
         /\ Len(scrape.fetches[k]) \in {1, 2}
         /\ Len(scrape.fetches[k]) = 2 <=> scrape.fetches[k][1] = "None"
    /\ scrape.pc = "done"
          => /\ LinksIn(scrape.hotel_info_list) \cup LinksIn(scrape.links_not_found)
                   = 1..scrape.links
             /\ LinksIn(scrape.hotel_info_list) \cap LinksIn(scrape.links_not_found) = {}
             /\ Len(scrape.hotel_info_list) + Len(scrape.links_not_found) = scrape.links

C28_Witness ==
    /\ scrape.pc = "done" /\ scrape.links = 3
    /\ scrape.fetches = <<(<<"info">>), (<<"None", "info">>), (<<"None", "None">>)>>
    /\ scrape.hotel_info_list = <<1, 2>>
    /\ scrape.links_not_found = <<3>>

\* C29: whenever a statement is issued on the connection of add_booking_data,
\* the connection is not in an aborted transaction: a failed booking insert
\* is rolled back before the next lookup or insert, and no record fails
\* because of an earlier record's error.
C29_NoAbortedTransaction ==
    /\ shared_conn # "aborted"
    /\ exc # "InFailedSqlTransaction"

C29_Witness ==
    /\ pc = "run" /\ i = 2
    /\ Len(booking_error_log) = run0.booking_error_log + 1
    /\ last.outcome = "DONE" /\ last.booking_error = ""
    /\ Len(booking) = run0.booking + 1
    /\ shared_conn = "idle"

\* the listings created during the run
RunListings == listings \ run0.listings

\* the identifiers lookups of the name of l may return
SameName(l) ==
    {m.listing_id : m \in {x \in listings : x.name = l.name /\ x.platform = "booking"}}

\* C30 as stated: when an ingest run completes, every listing created during
\* that run is referenced by at least one booking row.
C30_NewListingsReferenced ==
    (runs >= 1 /\ pc = "ready" /\ exc = "none")
        => \A l \in RunListings :
             \E k \in 1..Len(booking) : booking[k].listing_id = l.listing_id

\* C30 amended: when an ingest run completes without an exception, for every
\* listing created during that run a booking row or a booking_error_log row
\* written during the run references a 'booking' listing of its name.
C30_NewListingsObservedOrQuarantined ==
    (runs >= 1 /\ pc = "ready" /\ exc = "none")
        => \A l \in RunListings :
             \/ \E k \in (run0.booking + 1)..Len(booking) :
                  booking[k].listing_id \in SameName(l)
             \/ \E k \in (run0.booking_error_log + 1)..Len(booking_error_log) :
                  booking_error_log[k].listing_id \in {ToString(id) : id \in SameName(l)}

C30_Witness ==
    /\ runs >= 1 /\ pc = "ready" /\ exc = "none"
    /\ \E l \in RunListings :
         /\ \A k \in 1..Len(booking) : booking[k].listing_id # l.listing_id
         /\ \E k \in (run0.booking_error_log + 1)..Len(booking_error_log) :
              /\ booking_error_log[k].listing_id = ToString(l.listing_id)
              /\ booking_error_log[k].error_message = "numeric field overflow"

====
